---- MODULE Spec2Model ----
(***************************************************************************)
(* State-machine model of deeposlandia/datasets/tanzania.py: the tile      *)
(* sampler (_preprocess_for_training), the exhaustive tiler                *)
(* (_preprocess_for_inference), the dataset populator (populate) and the   *)
(* coordinate transforms (get_pixel, get_geocoord).                        *)
(***************************************************************************)
EXTENDS Integers, Sequences, FiniteSets, TLC

VARIABLES
    image_size,           \* self.image_size (tile side, pixels)
    image_info,           \* self.image_info, the dataset's manifest
    image_filename,       \* raw image path handed to the running call
    output_dir,           \* output folder handed to the running call
    raw_img_width,        \* raster.RasterXSize
    raw_img_height,       \* raster.RasterYSize
    labels,               \* the raster's labels, as seen through extract_tile_items
    nb_images,            \* target tile count n of the sampler run
    nb_attempts,          \* sampler counter
    image_counter,        \* sampler counter (accepted tiles)
    empty_image_counter,  \* sampler counter (accepted empty tiles)
    result_dicts,         \* list of tile records built by the running call
    x, y,                 \* origin drawn by the last sampler iteration
    pc,                   \* position of the running call
    populate_args,        \* arguments of the running populate call
    image_list_longname,  \* populate: the listed images, in listing order
    nb_tile_per_image,    \* populate: target of each sampler run
    results,              \* populate: the value returned for each image
    finished,             \* populate: the images done, in completion order
    manifest_before,      \* image_info when the running populate call began
    calls,                \* populate calls made on this dataset
    coord_arg,            \* coordinate transforms: argument of the last call
    axis_min,             \* coordinate transforms: min_coord, the bound at pixel 0
    axis_max,             \* coordinate transforms: max_coord, the bound at pixel size
    axis_size,            \* coordinate transforms: size, the axis length in pixels
    call,                 \* coordinate transforms: the function last called
    out,                  \* coordinate transforms: what the last call returned
    prev,                 \* coordinate transforms: the argument of the call before
    suffix_arg,           \* file naming: the suffix argument of the running call
    filenames,            \* file naming: what _generate_preprocessed_filenames returned
    raster_features,      \* tile geometry: what get_image_features returned
    tile_x, tile_y,       \* tile geometry: min_x, min_y of the tile window
    tile_w, tile_h,       \* tile geometry: tile_width, tile_height of the window
    area,                 \* tile geometry: what get_tile_footprint returned
    polygon,              \* tile geometry: a polygon clipped to the footprint
    points,               \* tile geometry: what extract_points_from_polygon returned
    buildings,            \* load_mask: the clipped labels, rows of condition and cover
    mask,                 \* load_mask: the mask array, a value per tile pixel
    idx                   \* load_mask: rows of buildings.iterrows() done so far

samplerVars == <<image_filename, output_dir, raw_img_width, raw_img_height,
                 labels, nb_images, nb_attempts, image_counter,
                 empty_image_counter, result_dicts, x, y>>

populateVars == <<image_info, populate_args, image_list_longname,
                  nb_tile_per_image, results, finished, manifest_before, calls>>

coordVars == <<coord_arg, axis_min, axis_max, axis_size, call, out, prev>>

namingVars == <<suffix_arg, filenames>>

geometryVars == <<raster_features, tile_x, tile_y, tile_w, tile_h, area,
                  polygon, points>>

maskVars == <<buildings, mask, idx>>

tileVars == <<namingVars, geometryVars, maskVars>>

vars == <<image_size, samplerVars, populateVars, coordVars, tileVars, pc>>

(***************************************************************************)
(* Bounds of the model.                                                    *)
(***************************************************************************)
MaxTiles == 6            \* sampler targets 0..MaxTiles on any raster
MaxBackgroundTiles == 11 \* sampler targets on an all-background raster
MaxMargin == 1           \* raster height exceeds the tile side by 1..MaxMargin
MaxTileSide == 3         \* exhaustive tiler: tile sides 1..MaxTileSide
MaxRasterSide == 6       \* exhaustive tiler: raster sides 1..MaxRasterSide
MaxTotal == 2            \* populate: total requests 0..MaxTotal
MaxProcesses == 2        \* populate: nb_processes in 1..MaxProcesses
MaxCalls == 2            \* populate calls made on one dataset
MaxCoord == 2            \* coordinate transforms: bounds in -MaxCoord..MaxCoord
MaxAxisSize == 3         \* coordinate transforms: axis sizes 1..MaxAxisSize
MaxOrigin == 2           \* file naming: origins (x, y) in 0..MaxOrigin
MaxGeoSide == 3          \* tile geometry: raster sides 2..MaxGeoSide, in pixels
MaxBuildings == 2        \* load_mask: 0..MaxBuildings clipped labels in a tile

(***************************************************************************)
(* Python values.                                                          *)
(***************************************************************************)
\* suffix=None of _generate_preprocessed_filenames and _serialize
None == "<None>"

\* str.replace(old, new) from position i on: every non-overlapping
\* occurrence, left to right
RECURSIVE replace_from(_, _, _, _)
replace_from(s, i, old, new) ==
    IF i > Len(s) THEN ""
    ELSE IF i + Len(old) - 1 <= Len(s) /\ SubSeq(s, i, i + Len(old) - 1) = old
         THEN new \o replace_from(s, i + Len(old), old, new)
         ELSE SubSeq(s, i, i) \o replace_from(s, i + 1, old, new)

replace(s, old, new) == replace_from(s, 1, old, new)

\* the last position <= i of the one-character string c in s, 0 if none
RECURSIVE rfind_from(_, _, _)
rfind_from(s, c, i) ==
    IF i = 0 THEN 0
    ELSE IF SubSeq(s, i, i) = c THEN i
    ELSE rfind_from(s, c, i - 1)

\* str.rfind(c) + 1
rfind(s, c) == rfind_from(s, c, Len(s))

\* os.path.basename: what follows the last "/"
basename(p) == SubSeq(p, rfind(p, "/") + 1, Len(p))

\* os.path.splitext(p)[0] for a name with one extension and no leading dot
splitext0(p) ==
    LET dot == rfind(p, ".")
    IN IF dot > 1 /\ dot > rfind(p, "/") + 1 THEN SubSeq(p, 1, dot - 1) ELSE p

\* os.path.join(a, b, c) for relative, non-empty components
join3(a, b, c) == a \o "/" \o b \o "/" \o c

\* mutant of range: the last, partial step is left out
range_whole_steps(start, stop, step) ==
    [k \in 1 .. ((stop - start) \div step) |-> start + (k - 1) * step]

\* range(start, stop, step) as a sequence, step > 0
RECURSIVE range(_, _, _)
range(start, stop, step) ==
    IF start >= stop THEN <<>>
    ELSE <<start>> \o range(start + step, stop, step)

\* np.random.randint(low, high): the values it can return, low <= v < high
randint(low, high) == low .. (high - 1)

(***************************************************************************)
(* TanzaniaDataset: label registry and file naming.                        *)
(***************************************************************************)
\* str.lower() on the condition strings of the label files
lower(s) ==
    CASE s \in {"Complete", "COMPLETE", "complete"} -> "complete"
      [] s \in {"Incomplete", "INCOMPLETE", "incomplete"} -> "incomplete"
      [] s \in {"Foundation", "FOUNDATION", "foundation"} -> "foundation"
      [] OTHER -> s

\* self.labels after __init__: the four add_label calls
dataset_labels ==
    << [id |-> 0, name |-> "background"],
       [id |-> 1, name |-> "complete"],
       [id |-> 2, name |-> "incomplete"],
       [id |-> 3, name |-> "foundation"] >>

get_nb_labels == Len(dataset_labels)

_generate_preprocessed_filenames(filename, outdir, px, py, suffix) ==
    LET basename_decomp0 == splitext0(basename(filename))
        img_id_str0 == ToString(image_size) \o "_" \o ToString(image_size) \o "_"
                       \o ToString(px) \o "_" \o ToString(py)
        img_id_str == IF suffix = None THEN img_id_str0
                      ELSE img_id_str0 \o "_" \o suffix
        new_filename == basename_decomp0 \o "_" \o img_id_str \o ".png"
        out_image_name == join3(outdir, "images", new_filename)
        out_label_name == replace(out_image_name, "images", "labels")
    IN [image |-> out_image_name, labels |-> out_label_name]

\* the dict _serialize returns (the two PNG writes are not modelled)
_serialize(label_dict, filename, outdir, px, py, suffix) ==
    LET dirs == _generate_preprocessed_filenames(filename, outdir, px, py, suffix)
    IN [raw_filename |-> filename,
        image_filename |-> dirs.image,
        label_filename |-> dirs.labels,
        labels |-> label_dict]

(***************************************************************************)
(* Label clipping and labelling of one tile.                               *)
(***************************************************************************)
\* The clipped labels of the tile at origin (min_x, min_y): the raster's
\* labels are kept as the map from tile origins to the conditions of the
\* polygons that sjoin/overlay leave in that tile.
extract_tile_items(lab, min_x, min_y) == lab[<<min_x, min_y>>]

\* the registry id load_mask fills a polygon of this condition with
label_id(condition) ==
    LET hit == SelectSeq(dataset_labels, LAMBDA l : l.name = lower(condition))
    IN hit[1].id

\* utils.build_labels(mask, range(nb_labels), "tanzania"): per label id,
\* whether the mask holds it
build_labels(tile_items) ==
    [i \in 0 .. (get_nb_labels - 1) |->
        \E k \in 1 .. Len(tile_items) : label_id(tile_items[k]) = i]

(***************************************************************************)
(* _preprocess_for_training: the sampler loop.                             *)
(***************************************************************************)
SamplerState ==
    [nb_attempts |-> nb_attempts, image_counter |-> image_counter,
     empty_image_counter |-> empty_image_counter, result_dicts |-> result_dicts]

\* mutants of the loop condition: an attempt budget of 2n + 1, a loop that
\* goes on at image_counter = nb_images, an attempt budget of n
LoopGuardLateCap(st, nb) == st.image_counter < nb /\ st.nb_attempts <= 2 * nb

LoopGuardOneMore(st, nb) == st.image_counter <= nb /\ st.nb_attempts < 2 * nb

LoopGuardHalfBudget(st, nb) == st.image_counter < nb /\ st.nb_attempts < nb

\* while image_counter < nb_images and nb_attempts < 2 * nb_images
LoopGuard(st, nb) == st.image_counter < nb /\ st.nb_attempts < 2 * nb

\* mutant of the quota test: <= for <
EmptyQuotaLeftInclusive(st, nb) == 10 * st.empty_image_counter <= nb

\* empty_image_counter < 0.1 * nb_images; for 0 <= nb < 5000 the double
\* product compares with an integer counter exactly as nb / 10 does
EmptyQuotaLeft(st, nb) == 10 * st.empty_image_counter < nb

\* mutant of the loop body: the augmentation stops once nb tiles are accepted
LoopBodyStopAtTarget(st, filename, outdir, lab, nb, px, py) ==
    LET tile_items == extract_tile_items(lab, px, py)
        label_dict == build_labels(tile_items)
        rec(suffix) == _serialize(label_dict, filename, outdir, px, py, suffix)
        four == <<rec("nw"), rec("ne"), rec("sw"), rec("se")>>
        k == IF nb - st.image_counter < 4 THEN nb - st.image_counter ELSE 4
    IN IF Len(tile_items) > 0
       THEN [st EXCEPT
               !.result_dicts = @ \o SubSeq(four, 1, k),
               !.image_counter = @ + k,
               !.nb_attempts = @ + 1]
       ELSE IF EmptyQuotaLeft(st, nb)
            THEN [st EXCEPT
                    !.result_dicts = Append(@, rec("nw")),
                    !.image_counter = @ + 1,
                    !.empty_image_counter = @ + 1,
                    !.nb_attempts = @ + 1]
            ELSE [st EXCEPT !.nb_attempts = @ + 1]

\* mutant of LoopBody: an empty tile is kept whatever the quota
LoopBodyKeepEmpty(st, filename, outdir, lab, nb, px, py) ==
    LET tile_items == extract_tile_items(lab, px, py)
        label_dict == build_labels(tile_items)
        rec(suffix) == _serialize(label_dict, filename, outdir, px, py, suffix)
    IN IF Len(tile_items) > 0
       THEN [st EXCEPT
               !.result_dicts = @ \o <<rec("nw"), rec("ne"), rec("sw"), rec("se")>>,
               !.image_counter = @ + 4,
               !.nb_attempts = @ + 1]
       ELSE [st EXCEPT
               !.result_dicts = Append(@, rec("nw")),
               !.image_counter = @ + 1,
               !.empty_image_counter = @ + 1,
               !.nb_attempts = @ + 1]

\* One iteration of the loop body with the drawn origin (px, py)
LoopBody(st, filename, outdir, lab, nb, px, py) ==
    LET tile_items == extract_tile_items(lab, px, py)
        label_dict == build_labels(tile_items)
        rec(suffix) == _serialize(label_dict, filename, outdir, px, py, suffix)
    IN IF Len(tile_items) > 0
       THEN [st EXCEPT
               !.result_dicts = @ \o <<rec("nw"), rec("ne"), rec("sw"), rec("se")>>,
               !.image_counter = @ + 4,
               !.nb_attempts = @ + 1]
       ELSE IF EmptyQuotaLeft(st, nb)
            THEN [st EXCEPT
                    !.result_dicts = Append(@, rec("nw")),
                    !.image_counter = @ + 1,
                    !.empty_image_counter = @ + 1,
                    !.nb_attempts = @ + 1]
            ELSE [st EXCEPT !.nb_attempts = @ + 1]

\* the origins the two randint draws can return
Origins(width, height, size) ==
    randint(0, width - size) \X randint(0, height - size)

\* what the clipper can leave in a tile that holds buildings
BuildingContents == {<<"Complete">>, <<"incomplete", "Foundation">>}

\* the label sets of the rasters of this size: each tile origin is background
\* or holds the raster's buildings
Rasters(width, height, size) ==
    UNION {[Origins(width, height, size) -> {<<>>, c}] : c \in BuildingContents}

Background(width, height, size) ==
    [o \in Origins(width, height, size) |-> <<>>]

\* _generate_preprocessed_filenames has not been called on its own
NamingIdle ==
    /\ suffix_arg = None
    /\ filenames = None

\* no tile geometry has been computed on its own
GeometryIdle ==
    /\ raster_features = None
    /\ tile_x = 0
    /\ tile_y = 0
    /\ tile_w = 0
    /\ tile_h = 0
    /\ area = <<>>
    /\ polygon = <<>>
    /\ points = <<>>

\* load_mask has not been called on its own
MaskIdle ==
    /\ buildings = <<>>
    /\ mask = <<>>
    /\ idx = 0

TileIdle == NamingIdle /\ GeometryIdle /\ MaskIdle

\* no coordinate transform has been called
CoordIdle ==
    /\ coord_arg = [type |-> "NoneType"]
    /\ axis_min = 0
    /\ axis_max = 1
    /\ axis_size = 1
    /\ call = "none"
    /\ out = [type |-> "NoneType"]
    /\ prev = [type |-> "NoneType"]

\* a dataset on which populate is not running: Dataset.__init__ leaves an
\* empty manifest
PopulateIdle ==
    /\ image_info = <<>>
    /\ populate_args = [nb_images |-> 0, labelling |-> TRUE, nb_processes |-> 1]
    /\ image_list_longname = <<>>
    /\ nb_tile_per_image = 0
    /\ results = <<>>
    /\ finished = <<>>
    /\ manifest_before = <<>>
    /\ calls = 0
    /\ CoordIdle

SamplerInit ==
    /\ image_size = 2
    /\ image_filename \in {"in/images/grid_001.tif"}
    /\ output_dir \in {"out"}
    /\ raw_img_width = image_size + 2
    /\ raw_img_height \in (image_size + 1) .. (image_size + MaxMargin)
    /\ \/ /\ nb_images \in 0 .. MaxTiles
          /\ labels \in Rasters(raw_img_width, raw_img_height, image_size)
       \/ /\ nb_images \in 0 .. MaxBackgroundTiles
          /\ labels = Background(raw_img_width, raw_img_height, image_size)
    /\ nb_attempts = 0
    /\ image_counter = 0
    /\ empty_image_counter = 0
    /\ result_dicts = <<>>
    /\ x = 0
    /\ y = 0
    /\ pc = "loop"
    /\ PopulateIdle
    /\ TileIdle

Iteration ==
    /\ pc = "loop"
    /\ LoopGuard(SamplerState, nb_images)
    /\ \E o \in Origins(raw_img_width, raw_img_height, image_size) :
          \E st \in {LoopBody(SamplerState, image_filename, output_dir, labels,
                               nb_images, o[1], o[2])} :
             /\ x' = o[1]
             /\ y' = o[2]
             /\ nb_attempts' = st.nb_attempts
             /\ image_counter' = st.image_counter
             /\ empty_image_counter' = st.empty_image_counter
             /\ result_dicts' = st.result_dicts
    /\ UNCHANGED <<image_size, tileVars, image_filename, output_dir, raw_img_width,
                   raw_img_height, labels, nb_images, pc, populateVars, coordVars>>

LoopExit ==
    /\ pc = "loop"
    /\ ~LoopGuard(SamplerState, nb_images)
    /\ pc' = "done"
    /\ UNCHANGED <<image_size, tileVars, samplerVars, populateVars, coordVars>>

SamplerNext == Iteration \/ LoopExit

SamplerSpec == SamplerInit /\ [][SamplerNext]_vars

(***************************************************************************)
(* Claims about the sampler.                                               *)
(***************************************************************************)
CeilDiv(a, b) == (a + b - 1) \div b

\* the last k characters of the string s
Tail_(s, k) == SubSeq(s, Len(s) - k + 1, Len(s))

\* the string s without its last k characters
Front_(s, k) == SubSeq(s, 1, Len(s) - k)

\* C1: a sampler run terminates within 2n iterations: nb_attempts never
\* exceeds 2n, every step that stays in the loop is an iteration that raises
\* nb_attempts by one, and a loop that has spent 2n attempts can only exit.
C1_SamplerTerminates ==
    /\ [](nb_attempts <= 2 * nb_images)
    /\ [][pc' = "loop" => nb_attempts' = nb_attempts + 1]_vars
    /\ []((pc = "loop" /\ nb_attempts = 2 * nb_images)
            => ~LoopGuard(SamplerState, nb_images))

C1_Witness == pc = "done" /\ nb_images >= 1 /\ nb_attempts = 2 * nb_images

\* C2 as stated: at loop exit accepted = n or attempts = 2n.
C2_ExitExact ==
    pc = "done" => (image_counter = nb_images \/ nb_attempts = 2 * nb_images)

\* C2 amended: at loop exit n <= accepted <= n + 3 (a draw with buildings
\* adds four tiles at once) or attempts = 2n.
C2_ExitState ==
    pc = "done" =>
        \/ (nb_images <= image_counter /\ image_counter <= nb_images + 3)
        \/ nb_attempts = 2 * nb_images

C2_Witness ==
    pc = "done" /\ image_counter > nb_images /\ nb_attempts < 2 * nb_images

\* C3 as stated: empty_accepted <= 0.1 * n for every n >= 1.
C3_QuotaTenth ==
    nb_images >= 1 => 10 * empty_image_counter <= nb_images

\* C3 amended: the accepted empty tiles are capped at ceil(0.1 * n).
C3_QuotaCeil == empty_image_counter <= CeilDiv(nb_images, 10)

C3_Witness ==
    /\ nb_images >= 1
    /\ 10 * empty_image_counter > nb_images
    /\ empty_image_counter = CeilDiv(nb_images, 10)

\* C4: on an all-background raster a run with target n >= 1 returns exactly
\* ceil(n/10) records, all with suffix nw, after exactly 2n attempts when
\* ceil(n/10) < n; n = 10 ends after 20 attempts with one record.
C4_BackgroundRun ==
    (/\ pc = "done"
     /\ nb_images >= 1
     /\ labels = Background(raw_img_width, raw_img_height, image_size)) =>
        /\ Len(result_dicts) = CeilDiv(nb_images, 10)
        /\ \A i \in 1 .. Len(result_dicts) :
              Tail_(result_dicts[i].image_filename, 7) = "_nw.png"
        /\ CeilDiv(nb_images, 10) < nb_images => nb_attempts = 2 * nb_images
        /\ nb_images = 10 => (nb_attempts = 20 /\ Len(result_dicts) = 1)

C4_Witness ==
    /\ pc = "done"
    /\ nb_images = 10
    /\ labels = Background(raw_img_width, raw_img_height, image_size)
    /\ nb_attempts = 20
    /\ Len(result_dicts) = 1

\* C5: an iteration whose tile holds buildings appends exactly four records,
\* nw, ne, sw, se in this order, with the same raw filename, origin and label
\* dict and distinct image filenames, raises image_counter by four (whatever
\* was missing to reach n) and leaves empty_image_counter alone.
C5_FourVariants ==
    [][(/\ nb_attempts' = nb_attempts + 1
        /\ Len(extract_tile_items(labels, x', y')) > 0) =>
         LET r == result_dicts'
             k == Len(result_dicts)
             suffixes == <<"_nw.png", "_ne.png", "_sw.png", "_se.png">>
         IN /\ Len(r) = k + 4
            /\ SubSeq(r, 1, k) = result_dicts
            /\ \A i \in 1 .. 4 :
                  /\ Tail_(r[k + i].image_filename, 7) = suffixes[i]
                  /\ Front_(r[k + i].image_filename, 7)
                       = Front_(r[k + 1].image_filename, 7)
                  /\ r[k + i].raw_filename = image_filename
                  /\ r[k + i].labels = r[k + 1].labels
            /\ \A i, j \in 1 .. 4 :
                  i # j => r[k + i].image_filename # r[k + j].image_filename
            /\ image_counter' = image_counter + 4
            /\ empty_image_counter' = empty_image_counter]_vars

\* a draw with buildings has just been taken with fewer than four tiles missing
C5_Witness ==
    /\ nb_attempts >= 1
    /\ Len(extract_tile_items(labels, x, y)) > 0
    /\ image_counter > nb_images
    /\ Len(result_dicts) = image_counter

(***************************************************************************)
(* _preprocess_for_inference: exhaustive tiling on the image_size grid.    *)
(***************************************************************************)
\* the dict _preprocess_tile returns (gdal.Translate's PNG is not modelled)
_preprocess_tile(px, py, filename, outdir) ==
    LET dirs == _generate_preprocessed_filenames(filename, outdir, px, py, None)
    IN [raw_filename |-> filename, image_filename |-> dirs.image]

\* the records of the inner loop for one x, then of the following x
RECURSIVE inference_columns(_, _, _, _)
inference_columns(xs, ys, filename, outdir) ==
    IF xs = <<>> THEN <<>>
    ELSE [k \in 1 .. Len(ys) |-> _preprocess_tile(Head(xs), ys[k], filename, outdir)]
         \o inference_columns(Tail(xs), ys, filename, outdir)

_preprocess_for_inference(filename, outdir, width, height) ==
    inference_columns(range(0, width, image_size), range(0, height, image_size),
                      filename, outdir)

InferenceInit ==
    /\ \/ /\ image_size \in 1 .. MaxTileSide
          /\ raw_img_width \in 1 .. MaxRasterSide
          /\ raw_img_height \in 1 .. MaxRasterSide
       \/ /\ image_size = 50
          /\ raw_img_width = 100
          /\ raw_img_height = 100
    /\ image_filename \in {"in/images/grid_001.tif"}
    /\ output_dir \in {"out"}
    /\ labels = <<>>
    /\ nb_images = 0
    /\ nb_attempts = 0
    /\ image_counter = 0
    /\ empty_image_counter = 0
    /\ result_dicts = <<>>
    /\ x = 0
    /\ y = 0
    /\ pc = "call"
    /\ PopulateIdle
    /\ TileIdle

InferenceCall ==
    /\ pc = "call"
    /\ result_dicts' = _preprocess_for_inference(image_filename, output_dir,
                                                 raw_img_width, raw_img_height)
    /\ pc' = "done"
    /\ UNCHANGED <<image_size, tileVars, image_filename, output_dir, raw_img_width,
                   raw_img_height, labels, nb_images, nb_attempts, image_counter,
                   empty_image_counter, x, y, populateVars, coordVars>>

InferenceNext == InferenceCall

InferenceSpec == InferenceInit /\ [][InferenceNext]_vars

(***************************************************************************)
(* Claims about the exhaustive tiler.                                      *)
(***************************************************************************)
\* the grid origins inside a raster of this size
GridOrigins(width, height, size) ==
    {<<i * size, j * size>> : i \in 0 .. width, j \in 0 .. height}
        \cap ((0 .. (width - 1)) \X (0 .. (height - 1)))

\* C6: the exhaustive tiler returns one record per grid cell, partial edge
\* tiles included: ceil(W/s) * ceil(H/s) records, whose origins are exactly
\* the (i*s, j*s) inside the raster, none repeated; a 100 x 100 raster with
\* tile size 50 gives the origins (0,0), (0,50), (50,0), (50,50).
C6_InferenceGrid ==
    pc = "done" =>
        LET grid == GridOrigins(raw_img_width, raw_img_height, image_size)
            tile(o) == _preprocess_tile(o[1], o[2], image_filename, output_dir)
        IN /\ Len(result_dicts) = CeilDiv(raw_img_width, image_size)
                                     * CeilDiv(raw_img_height, image_size)
           /\ {result_dicts[k] : k \in 1 .. Len(result_dicts)}
                 = {tile(o) : o \in grid}
           /\ \A o1, o2 \in grid : o1 # o2 => tile(o1) # tile(o2)
           /\ \A k1, k2 \in 1 .. Len(result_dicts) :
                 k1 # k2 => result_dicts[k1] # result_dicts[k2]
           /\ (raw_img_width = 100 /\ raw_img_height = 100 /\ image_size = 50) =>
                 {result_dicts[k].image_filename : k \in 1 .. Len(result_dicts)}
                   = {"out/images/grid_001_50_50_0_0.png",
                      "out/images/grid_001_50_50_0_50.png",
                      "out/images/grid_001_50_50_50_0.png",
                      "out/images/grid_001_50_50_50_50.png"}

\* a finished call on a raster with partial tiles on both edges
C6_Witness ==
    /\ pc = "done"
    /\ raw_img_width % image_size # 0
    /\ raw_img_height % image_size # 0
    /\ raw_img_width > image_size
    /\ raw_img_height > image_size
    /\ Len(result_dicts) >= 4

(***************************************************************************)
(* populate: one call per listed image, sequentially or through a process  *)
(* pool, then the flattening of the manifest.                              *)
(***************************************************************************)
\* int(a / b) for b > 0: true division, then truncation towards zero
int_div(a, b) == IF a >= 0 THEN a \div b ELSE -((-a) \div b)

\* what os.listdir(<input_dir>/images) can return
ImageListings ==
    {<<"grid_001.tif">>, <<"grid_001.tif", "grid_002.tif">>,
     <<"grid_002.tif", "grid_001.tif">>, <<".directory", "grid_002.tif">>}

\* [os.path.join(input_dir, "images", l) for l in image_list
\*  if not l.startswith('.')]
longnames(input_dir, image_list) ==
    LET kept == SelectSeq(image_list, LAMBDA l : SubSeq(l, 1, 1) # ".")
    IN [i \in 1 .. Len(kept) |-> join3(input_dir, "images", kept[i])]

\* what gdal.Open and gpd.read_file find for an image of the input folder:
\* grid_001 holds buildings in its west tile only, grid_002 holds none
RasterOf(filename) ==
    LET width == image_size + 2
        height == image_size + 1
    IN [width |-> width, height |-> height,
        labels |-> IF filename = "in/images/grid_001.tif"
                   THEN [o \in Origins(width, height, image_size) |->
                           IF o[1] = 0 THEN <<"Complete">> ELSE <<>>]
                   ELSE Background(width, height, image_size)]

\* the lists a sampler run can return from state st on
RECURSIVE sampler_returns(_, _, _, _, _)
sampler_returns(st, filename, outdir, raster, nb) ==
    IF ~LoopGuard(st, nb) THEN {st.result_dicts}
    ELSE UNION {sampler_returns(
                    LoopBody(st, filename, outdir, raster.labels, nb, o[1], o[2]),
                    filename, outdir, raster, nb)
                : o \in Origins(raster.width, raster.height, image_size)}

\* the lists _preprocess_for_training(filename, output_dir, nb) can return
_preprocess_for_training(filename, outdir, nb) ==
    sampler_returns([nb_attempts |-> 0, image_counter |-> 0,
                     empty_image_counter |-> 0, result_dicts |-> <<>>],
                    filename, outdir, RasterOf(filename), nb)

\* the values the call made for one image can return
image_returns(filename, outdir, labelling, nb) ==
    IF labelling
    THEN _preprocess_for_training(filename, outdir, nb)
    ELSE {_preprocess_for_inference(filename, outdir, RasterOf(filename).width,
                                    RasterOf(filename).height)}

\* An element of image_info is a tile record (a dict), a list of tile
\* records [sublist |-> ...] or a string [str |-> ...].  Iterating a dict
\* yields its keys in insertion order, iterating a string its characters.
iterate(e) ==
    IF "sublist" \in DOMAIN e THEN e.sublist
    ELSE IF "str" \in DOMAIN e
         THEN [i \in 1 .. Len(e.str) |-> [str |-> SubSeq(e.str, i, i)]]
    ELSE IF "label_filename" \in DOMAIN e
         THEN <<[str |-> "raw_filename"], [str |-> "image_filename"],
                [str |-> "label_filename"], [str |-> "labels"]>>
         ELSE <<[str |-> "raw_filename"], [str |-> "image_filename"]>>

\* [item for sublist in info for item in sublist]
RECURSIVE flatten(_)
flatten(info) ==
    IF info = <<>> THEN <<>> ELSE iterate(Head(info)) \o flatten(Tail(info))

\* mutant of starmap's result: the returned lists in completion order
starmap_unordered(res, fin) == [i \in 1 .. Len(res) |-> [sublist |-> res[fin[i]]]]

\* Pool.starmap's result: the returned lists in the order of the arguments
starmap(res, fin) == [i \in 1 .. Len(res) |-> [sublist |-> res[i]]]

PopulateInit ==
    /\ image_size = 2
    /\ image_filename = ""
    /\ output_dir = "out"
    /\ raw_img_width = 0
    /\ raw_img_height = 0
    /\ labels = <<>>
    /\ nb_images = 0
    /\ nb_attempts = 0
    /\ image_counter = 0
    /\ empty_image_counter = 0
    /\ result_dicts = <<>>
    /\ x = 0
    /\ y = 0
    /\ pc = "idle"
    /\ PopulateIdle
    /\ TileIdle

\* populate is called: the images are listed and the per-image target set
PopulateCall ==
    /\ pc = "idle"
    /\ calls < MaxCalls
    /\ \E total \in 0 .. MaxTotal, labelling \in BOOLEAN,
          nb_processes \in 1 .. MaxProcesses, image_list \in ImageListings :
          /\ populate_args' = [nb_images |-> total, labelling |-> labelling,
                               nb_processes |-> nb_processes]
          /\ image_list_longname' = longnames("in", image_list)
          /\ nb_tile_per_image' =
                IF labelling
                THEN int_div(total, Len(longnames("in", image_list)))
                ELSE nb_tile_per_image
          /\ results' = [i \in 1 .. Len(longnames("in", image_list)) |-> <<>>]
          /\ pc' = IF nb_processes = 1 THEN "loop" ELSE "pool"
    /\ finished' = <<>>
    /\ manifest_before' = image_info
    /\ calls' = calls + 1
    /\ UNCHANGED <<image_size, tileVars, samplerVars, coordVars, image_info>>

\* nb_processes == 1: the next image is processed and its list appended
SequentialStep ==
    /\ pc = "loop"
    /\ LET i == Len(finished) + 1
       IN \E r \in image_returns(image_list_longname[i], output_dir,
                                  populate_args.labelling, nb_tile_per_image) :
             /\ results' = [results EXCEPT ![i] = r]
             /\ image_info' = Append(image_info, [sublist |-> r])
             /\ finished' = Append(finished, i)
             /\ pc' = IF i = Len(image_list_longname) THEN "flatten" ELSE "loop"
    /\ UNCHANGED <<image_size, tileVars, samplerVars, coordVars, populate_args, image_list_longname,
                   nb_tile_per_image, manifest_before, calls>>

\* nb_processes > 1: a worker of the pool finishes the call for one image
PoolTask ==
    /\ pc = "pool"
    /\ \E i \in 1 .. Len(image_list_longname) :
          /\ \A j \in 1 .. Len(finished) : finished[j] # i
          /\ \E r \in image_returns(image_list_longname[i], output_dir,
                                     populate_args.labelling, nb_tile_per_image) :
                results' = [results EXCEPT ![i] = r]
          /\ finished' = Append(finished, i)
    /\ UNCHANGED <<image_size, tileVars, samplerVars, coordVars, image_info, populate_args,
                   image_list_longname, nb_tile_per_image, manifest_before,
                   calls, pc>>

\* every call is done: self.image_info = p.starmap(...)
PoolCollect ==
    /\ pc = "pool"
    /\ Len(finished) = Len(image_list_longname)
    /\ image_info' = starmap(results, finished)
    /\ pc' = "flatten"
    /\ UNCHANGED <<image_size, tileVars, samplerVars, coordVars, populate_args, image_list_longname,
                   nb_tile_per_image, results, finished, manifest_before, calls>>

\* nb_processes == 1: the call for the next image raises (the raster or its
\* label file cannot be read); nothing in populate catches it
SequentialRaise ==
    /\ pc = "loop"
    /\ pc' = "raised"
    /\ UNCHANGED <<image_size, tileVars, samplerVars, coordVars, populateVars>>

\* nb_processes > 1: the call for an image raises in its worker and
\* p.starmap raises it again in populate, before the assignment
PoolRaise ==
    /\ pc = "pool"
    /\ Len(finished) < Len(image_list_longname)
    /\ pc' = "raised"
    /\ UNCHANGED <<image_size, tileVars, samplerVars, coordVars, populateVars>>

\* the closing list comprehension, and the return
Flatten ==
    /\ pc = "flatten"
    /\ image_info' = flatten(image_info)
    /\ pc' = "idle"
    /\ UNCHANGED <<image_size, tileVars, samplerVars, coordVars, populate_args, image_list_longname,
                   nb_tile_per_image, results, finished, manifest_before, calls>>

PopulateNext ==
    \/ PopulateCall
    \/ SequentialStep
    \/ PoolTask
    \/ PoolCollect
    \/ Flatten
    \/ SequentialRaise
    \/ PoolRaise

PopulateSpec == PopulateInit /\ [][PopulateNext]_vars

(***************************************************************************)
(* Claims about populate.                                                  *)
(***************************************************************************)
\* the concatenation of a sequence of lists
RECURSIVE Concat(_)
Concat(lists) ==
    IF lists = <<>> THEN <<>> ELSE Head(lists) \o Concat(Tail(lists))

\* a populate call has returned
Returned == pc = "idle" /\ calls >= 1

\* C7: when populate returns, the manifest is what it was before the call,
\* unchanged and in the same order, followed by the records of this call.
C7_PopulateAppends ==
    Returned => image_info = manifest_before \o Concat(results)

\* C8: from an empty manifest, training-mode populate over k >= 1 images
\* with total request T leaves the concatenation, in listing order, of the
\* lists returned by one sampler run per image with target floor(T / k);
\* each image's records are contiguous; the number of processes and the
\* order in which the workers finish do not matter.
C8_TrainingManifest ==
    (Returned /\ manifest_before = <<>> /\ populate_args.labelling) =>
        LET k == Len(image_list_longname)
            n == populate_args.nb_images \div k
        IN /\ k >= 1
           /\ nb_tile_per_image = n
           /\ Len(results) = k
           /\ \A i \in 1 .. k :
                 /\ results[i] \in _preprocess_for_training(
                                      image_list_longname[i], output_dir, n)
                 /\ \A j \in 1 .. Len(results[i]) :
                       results[i][j].raw_filename = image_list_longname[i]
           /\ image_info = Concat(results)
           /\ \A a, b, c \in 1 .. Len(image_info) :
                 (a < b /\ b < c
                    /\ image_info[a].raw_filename = image_info[c].raw_filename)
                 => image_info[b].raw_filename = image_info[a].raw_filename

\* a parallel training call from an empty manifest in which the second image
\* finished first and both images gave records
C8_Witness ==
    /\ Returned
    /\ manifest_before = <<>>
    /\ populate_args.labelling
    /\ populate_args.nb_processes > 1
    /\ finished = <<2, 1>>
    /\ results[1] # <<>>
    /\ results[2] # <<>>

(***************************************************************************)
(* get_pixel and get_geocoord.  A Python value carries its type; a number  *)
(* is the exact rational num / den, den > 0.                               *)
(***************************************************************************)
PyInt(n) == [type |-> "int", num |-> n, den |-> 1]

PyFloat(n, d) == [type |-> "float", num |-> n, den |-> d]

PyList(items) == [type |-> "list", items |-> items]

PyTuple(items) == [type |-> "tuple", items |-> items]

NoneValue == [type |-> "NoneType"]

\* raise TypeError("Unknown type (%s), pass a 'list' or a ...")
TypeError == [type |-> "TypeError"]

\* mutant of geocoord_of: the offset min_coord is forgotten
geocoord_no_offset(c, min_coord, max_coord, size) ==
    PyFloat(c.num * (max_coord - min_coord), size * c.den)

\* min_coord + c * (max_coord - min_coord) / size
geocoord_of(c, min_coord, max_coord, size) ==
    PyFloat(min_coord * size * c.den + c.num * (max_coord - min_coord), size * c.den)

\* mutant of pixel_of: the quotient is rounded down, as math.floor does
pixel_floor(c, min_coord, max_coord, size) ==
    LET n == size * (c.num - min_coord * c.den)
        d == c.den * (max_coord - min_coord)
    IN PyInt(IF d > 0 THEN n \div d ELSE (-n) \div (-d))

\* int(size * (c - min_coord) / (max_coord - min_coord)): int() truncates
\* towards zero
pixel_of(c, min_coord, max_coord, size) ==
    LET n == size * (c.num - min_coord * c.den)
        d == c.den * (max_coord - min_coord)
    IN PyInt(IF d > 0 THEN int_div(n, d) ELSE int_div(-n, -d))

\* mutant of get_pixel: a single int is accepted as a single float is
get_pixel_any_number(coord, min_coord, max_coord, size) ==
    IF coord.type = "list"
    THEN PyList([i \in 1 .. Len(coord.items) |->
                 pixel_of(coord.items[i], min_coord, max_coord, size)])
    ELSE IF coord.type \in {"float", "int"}
         THEN pixel_of(coord, min_coord, max_coord, size)
         ELSE TypeError

get_pixel(coord, min_coord, max_coord, size) ==
    IF coord.type = "list"
    THEN PyList([i \in 1 .. Len(coord.items) |->
                 pixel_of(coord.items[i], min_coord, max_coord, size)])
    ELSE IF coord.type = "float"
         THEN pixel_of(coord, min_coord, max_coord, size)
         ELSE TypeError

get_geocoord(coord, min_coord, max_coord, size) ==
    IF coord.type = "list"
    THEN PyList([i \in 1 .. Len(coord.items) |->
                 geocoord_of(coord.items[i], min_coord, max_coord, size)])
    ELSE IF coord.type = "int"
         THEN geocoord_of(coord, min_coord, max_coord, size)
         ELSE TypeError

\* The doubles get_geocoord returns and get_pixel reads are rounded: the
\* rounding of both computations is kept as an error of the geographic
\* coordinate of at most 1/64, a small fraction of the pixel of every axis
\* of the model.
RoundOff == {-1, 0, 1}

rounded(v, e) == PyFloat(v.num * 64 + e * v.den, v.den * 64)

\* the values a returned v can stand for, each float with its own rounding
roundings(v) ==
    IF v.type = "float" THEN {rounded(v, e) : e \in RoundOff}
    ELSE IF v.type = "list"
         THEN {PyList([i \in 1 .. Len(v.items) |-> rounded(v.items[i], es[i])])
               : es \in [1 .. Len(v.items) -> RoundOff]}
         ELSE {v}

\* the arguments the transforms are called with
CoordInputs ==
    LET ints == {PyInt(n) : n \in -1 .. (MaxAxisSize + 1)}
        floats == {PyFloat(n, d) : n \in -MaxCoord .. (MaxCoord + 1), d \in {1, 2}}
        items == {PyInt(0), PyInt(MaxAxisSize), PyFloat(1, 2), PyFloat(-MaxCoord, 1)}
    IN ints \cup floats
         \cup {PyList(<<>>)} \cup {PyList(<<a>>) : a \in items}
         \cup {PyList(<<a, b>>) : a \in items, b \in items}
         \cup {PyTuple(<<PyInt(1), PyInt(2)>>), PyTuple(<<PyFloat(1, 2)>>),
               [type |-> "str"], NoneValue}

CoordInit ==
    /\ coord_arg \in CoordInputs
    /\ axis_min \in -MaxCoord .. MaxCoord
    /\ axis_max \in (-MaxCoord .. MaxCoord) \ {axis_min}
    /\ axis_size \in 1 .. MaxAxisSize
    /\ call = "none"
    /\ out = NoneValue
    /\ prev = NoneValue
    /\ image_size = 2
    /\ image_filename = ""
    /\ output_dir = "out"
    /\ raw_img_width = 0
    /\ raw_img_height = 0
    /\ labels = <<>>
    /\ nb_images = 0
    /\ nb_attempts = 0
    /\ image_counter = 0
    /\ empty_image_counter = 0
    /\ result_dicts = <<>>
    /\ x = 0
    /\ y = 0
    /\ pc = "idle"
    /\ image_info = <<>>
    /\ populate_args = [nb_images |-> 0, labelling |-> TRUE, nb_processes |-> 1]
    /\ image_list_longname = <<>>
    /\ nb_tile_per_image = 0
    /\ results = <<>>
    /\ finished = <<>>
    /\ manifest_before = <<>>
    /\ calls = 0
    /\ TileIdle

GetPixelCall ==
    /\ call = "none"
    /\ out' = get_pixel(coord_arg, axis_min, axis_max, axis_size)
    /\ call' = "get_pixel"
    /\ UNCHANGED <<image_size, tileVars, samplerVars, populateVars, pc,
                   coord_arg, axis_min, axis_max, axis_size, prev>>

GetGeocoordCall ==
    /\ call = "none"
    /\ out' \in roundings(get_geocoord(coord_arg, axis_min, axis_max, axis_size))
    /\ call' = "get_geocoord"
    /\ UNCHANGED <<image_size, tileVars, samplerVars, populateVars, pc,
                   coord_arg, axis_min, axis_max, axis_size, prev>>

\* get_pixel(get_geocoord(p, ...), ...) with the same bounds
GetPixelOfGeocoord ==
    /\ call = "get_geocoord"
    /\ out # TypeError
    /\ prev' = coord_arg
    /\ coord_arg' = out
    /\ out' = get_pixel(out, axis_min, axis_max, axis_size)
    /\ call' = "get_pixel"
    /\ UNCHANGED <<image_size, tileVars, samplerVars, populateVars, pc,
                   axis_min, axis_max, axis_size>>

\* get_geocoord(get_pixel(c, ...), ...) with the same bounds
GetGeocoordOfPixel ==
    /\ call = "get_pixel"
    /\ prev = NoneValue
    /\ out # TypeError
    /\ prev' = coord_arg
    /\ coord_arg' = out
    /\ out' \in roundings(get_geocoord(out, axis_min, axis_max, axis_size))
    /\ call' = "get_geocoord"
    /\ UNCHANGED <<image_size, tileVars, samplerVars, populateVars, pc,
                   axis_min, axis_max, axis_size>>

CoordNext ==
    GetPixelCall \/ GetGeocoordCall \/ GetPixelOfGeocoord \/ GetGeocoordOfPixel

CoordSpec == CoordInit /\ [][CoordNext]_vars

(***************************************************************************)
(* Claims about the coordinate transforms.                                 *)
(***************************************************************************)
Abs(n) == IF n >= 0 THEN n ELSE -n

\* C9: for every integer pixel p in [0, size] and all bounds with
\* min_coord # max_coord (either direction) and size > 0,
\* get_pixel(get_geocoord(p)) differs from p by at most 1.
C9_RoundTrip ==
    (/\ call = "get_pixel"
     /\ prev.type = "int"
     /\ 0 <= prev.num
     /\ prev.num <= axis_size) =>
        /\ out.type = "int"
        /\ Abs(out.num - prev.num) <= 1

\* a round trip on a decreasing axis that truncation brings one pixel down
C9_Witness ==
    /\ call = "get_pixel"
    /\ prev.type = "int"
    /\ 0 < prev.num
    /\ prev.num <= axis_size
    /\ axis_min > axis_max
    /\ out = PyInt(prev.num - 1)

IsNumber(v) == v.type \in {"int", "float"}

IsSequence(v) == v.type \in {"list", "tuple"}

SameShape(v, w) ==
    IF IsSequence(v)
    THEN w.type = v.type /\ Len(w.items) = Len(v.items)
    ELSE IsNumber(w)

\* C10 as stated: both transforms take a single number of any kind or a
\* sequence of numbers, return the same shape, and raise TypeError exactly
\* for any other input.
C10_AnyNumberOrSequence ==
    call # "none" =>
        /\ out = TypeError <=> ~(IsNumber(coord_arg) \/ IsSequence(coord_arg))
        /\ out # TypeError => SameShape(coord_arg, out)

\* C10 amended: get_pixel takes a list or a single float, get_geocoord a
\* list or a single int; each returns the shape it was given and raises
\* TypeError exactly for any other input (the other kind of single number
\* and a tuple included).
C10_ListOrOwnScalar ==
    /\ call = "get_pixel" =>
          (out = TypeError <=> coord_arg.type \notin {"list", "float"})
    /\ call = "get_geocoord" =>
          (out = TypeError <=> coord_arg.type \notin {"list", "int"})
    /\ (call # "none" /\ out # TypeError) => SameShape(coord_arg, out)

\* get_pixel has refused a single integer
C10_Witness ==
    /\ call = "get_pixel"
    /\ coord_arg.type = "int"
    /\ out = TypeError

(***************************************************************************)
(* _generate_preprocessed_filenames called on its own.                     *)
(***************************************************************************)
\* raw image paths, with "images" in the folder, in the file name or nowhere
RawFilenames == {"in/images/grid_001.tif", "raw/images_2.tif", "grid_3.tif"}

\* output folders, with and without the text "images"
OutputDirs == {"out", "images_out", "data/images/v1", "a/b"}

Suffixes == {None, "nw", "ne", "sw", "se"}

\* the sampler state of a dataset on which no sampler runs
SamplerIdle ==
    /\ raw_img_width = 0
    /\ raw_img_height = 0
    /\ labels = <<>>
    /\ nb_images = 0
    /\ nb_attempts = 0
    /\ image_counter = 0
    /\ empty_image_counter = 0
    /\ result_dicts = <<>>

FilenameInit ==
    /\ image_size \in {2, 384}
    /\ image_filename \in RawFilenames
    /\ output_dir \in OutputDirs
    /\ x \in 0 .. MaxOrigin
    /\ y \in 0 .. MaxOrigin
    /\ suffix_arg \in Suffixes
    /\ filenames = None
    /\ pc = "generate"
    /\ SamplerIdle
    /\ PopulateIdle
    /\ GeometryIdle
    /\ MaskIdle

GenerateFilenames ==
    /\ pc = "generate"
    /\ filenames' = _generate_preprocessed_filenames(image_filename, output_dir,
                                                     x, y, suffix_arg)
    /\ pc' = "generated"
    /\ UNCHANGED <<image_size, samplerVars, populateVars, coordVars, suffix_arg,
                   geometryVars, maskVars>>

FilenameNext == GenerateFilenames

FilenameSpec == FilenameInit /\ [][FilenameNext]_vars

\* the file name of a raw image path without its folder and extension
Stem ==
    CASE image_filename = "in/images/grid_001.tif" -> "grid_001"
      [] image_filename = "raw/images_2.tif" -> "images_2"
      [] image_filename = "grid_3.tif" -> "grid_3"

\* <basename>_<image_size>_<image_size>_<x>_<y>[_<suffix>].png
TileName ==
    Stem \o "_" \o ToString(image_size) \o "_" \o ToString(image_size)
         \o "_" \o ToString(x) \o "_" \o ToString(y)
         \o (IF suffix_arg = None THEN "" ELSE "_" \o suffix_arg) \o ".png"

\* C11: the image path is <output_dir>/images/<tile name> and the label path
\* is <output_dir>/labels/<tile name>, the same path with only the images
\* folder under output_dir replaced, whatever output_dir and the basename
\* contain.
C11_LabelPathSibling ==
    pc = "generated" =>
        /\ filenames.image = output_dir \o "/images/" \o TileName
        /\ filenames.labels = output_dir \o "/labels/" \o TileName

(***************************************************************************)
(* Claims about the value of get_pixel.                                    *)
(***************************************************************************)
\* size * (c - min_coord) / (max_coord - min_coord) as the fraction
\* num / den with den > 0
QuotientOn(c, min_coord, max_coord, size) ==
    LET n == size * (c.num - min_coord * c.den)
        d == c.den * (max_coord - min_coord)
    IN IF d > 0 THEN [num |-> n, den |-> d] ELSE [num |-> -n, den |-> -d]

Quotient(c) == QuotientOn(c, axis_min, axis_max, axis_size)

\* the floats get_pixel has just transformed, each with its pixel
Transformed ==
    IF call # "get_pixel" \/ out = TypeError THEN {}
    ELSE IF coord_arg.type = "list"
         THEN {<<coord_arg.items[i], out.items[i]>> : i \in 1 .. Len(out.items)}
         ELSE {<<coord_arg, out>>}

\* C12 as stated: for every coordinate, those outside the raster bounds
\* included, get_pixel returns floor(size * (coord - min) / (max - min)).
C12_FloorEverywhere ==
    \A t \in Transformed :
        LET q == Quotient(t[1])
        IN /\ t[2].num * q.den <= q.num
           /\ q.num < (t[2].num + 1) * q.den

\* C12 amended: get_pixel returns the quotient truncated towards zero, the
\* integer k of the quotient's sign with |k| <= |quotient| < |k| + 1; it is
\* the floor exactly when the quotient is not negative or is whole.
C12_TruncatedTowardsZero ==
    \A t \in Transformed :
        LET q == Quotient(t[1])
            k == t[2].num
        IN /\ t[2].type = "int"
           /\ Abs(k) * q.den <= Abs(q.num)
           /\ Abs(q.num) < (Abs(k) + 1) * q.den
           /\ k * q.num >= 0
           /\ (k = q.num \div q.den) <=> (q.num >= 0 \/ q.num % q.den = 0)

\* a coordinate less than a pixel outside the raster, sent to pixel 0
C12_Witness ==
    /\ call = "get_pixel"
    /\ coord_arg.type = "float"
    /\ Quotient(coord_arg).num < 0
    /\ out = PyInt(0)

(***************************************************************************)
(* Tile geometry: get_image_features, get_tile_footprint, the clipping of  *)
(* extract_tile_items and extract_points_from_polygon.                     *)
(***************************************************************************)
\* gt is raster.GetGeoTransform(), gt[k + 1] here being gt[k] there; the
\* srid is left out
get_image_features(width, height, gt) ==
    [west |-> gt[1],
     south |-> gt[4] + height * gt[6],
     east |-> gt[1] + width * gt[2],
     north |-> gt[4],
     width |-> width,
     height |-> height]

\* mutant of get_tile_footprint: the rows are counted from the south
get_tile_footprint_south_up(features, min_x, min_y, tile_width, tile_height, err) ==
    LET min_x_coord == rounded(get_geocoord(PyInt(min_x), features.west,
                                            features.east, features.width), err[1])
        min_y_coord == rounded(get_geocoord(PyInt(min_y), features.south,
                                            features.north, features.height), err[2])
        max_x_coord == rounded(get_geocoord(PyInt(min_x + tile_width), features.west,
                                            features.east, features.width), err[3])
        max_y_coord == rounded(get_geocoord(PyInt(min_y + tile_height), features.south,
                                            features.north, features.height), err[4])
    IN << <<min_x_coord, min_y_coord>>,
          <<max_x_coord, min_y_coord>>,
          <<max_x_coord, max_y_coord>>,
          <<min_x_coord, max_y_coord>> >>

\* The polygon of the four corners, tile_height given.  err holds the
\* rounding of the four doubles that get_geocoord returns.
get_tile_footprint(features, min_x, min_y, tile_width, tile_height, err) ==
    LET min_x_coord == rounded(get_geocoord(PyInt(min_x), features.west,
                                            features.east, features.width), err[1])
        min_y_coord == rounded(get_geocoord(PyInt(min_y), features.north,
                                            features.south, features.height), err[2])
        max_x_coord == rounded(get_geocoord(PyInt(min_x + tile_width), features.west,
                                            features.east, features.width), err[3])
        max_y_coord == rounded(get_geocoord(PyInt(min_y + tile_height), features.north,
                                            features.south, features.height), err[4])
    IN << <<min_x_coord, min_y_coord>>,
          <<max_x_coord, min_y_coord>>,
          <<max_x_coord, max_y_coord>>,
          <<min_x_coord, max_y_coord>> >>

\* mutant of extract_points_from_polygon: the tile origin is not subtracted
extract_points_raster_frame(p, features, min_x, min_y) ==
    LET raw_xs == [i \in 1 .. Len(p) |-> p[i][1]]
        raw_ys == [i \in 1 .. Len(p) |-> p[i][2]]
        xs == get_pixel(PyList(raw_xs), features.west, features.east, features.width)
        ys == get_pixel(PyList(raw_ys), features.north, features.south, features.height)
    IN [i \in 1 .. Len(p) |-> <<ys.items[i].num, xs.items[i].num>>]

\* the [row, column] pairs, the vertices of p being (x, y) pairs of doubles
extract_points_from_polygon(p, features, min_x, min_y) ==
    LET raw_xs == [i \in 1 .. Len(p) |-> p[i][1]]
        raw_ys == [i \in 1 .. Len(p) |-> p[i][2]]
        xs == get_pixel(PyList(raw_xs), features.west, features.east, features.width)
        ys == get_pixel(PyList(raw_ys), features.north, features.south, features.height)
    IN [i \in 1 .. Len(p) |-> <<ys.items[i].num - min_y, xs.items[i].num - min_x>>]

\* (a + b) / 2
midpoint(a, b) == PyFloat(a.num * b.den + b.num * a.den, 2 * a.den * b.den)

\* What gpd.overlay(tile_items, bdf) can leave of a polygon in the tile of
\* footprint fp: the footprint itself (a polygon that covers the tile), and
\* triangles between two corners of the footprint and its centre.
clipped_polygons(fp) ==
    LET centre == <<midpoint(fp[1][1], fp[3][1]), midpoint(fp[1][2], fp[3][2])>>
    IN {fp} \cup {<<fp[c[1]], centre, fp[c[2]]>> :
                     c \in {d \in (1 .. 4) \X (1 .. 4) : d[1] < d[2]}}

\* the geotransforms of the rasters: origin (west, north), pixel width, and
\* a negative pixel height (north at row 0)
GeoTransforms == {<<0, 1, 0, 0, 0, -1>>, <<-2, 2, 0, 3, 0, -1>>}

GeometryInit ==
    /\ \E width \in 2 .. MaxGeoSide, height \in 2 .. MaxGeoSide, gt \in GeoTransforms :
          /\ raster_features = get_image_features(width, height, gt)
          /\ raw_img_width = width
          /\ raw_img_height = height
    /\ tile_w \in 1 .. raw_img_width
    /\ tile_h \in 1 .. raw_img_height
    /\ tile_x \in 0 .. (raw_img_width - tile_w)
    /\ tile_y \in 0 .. (raw_img_height - tile_h)
    /\ image_size = tile_w
    /\ area = <<>>
    /\ polygon = <<>>
    /\ points = <<>>
    /\ pc = "footprint"
    /\ image_filename = ""
    /\ output_dir = "out"
    /\ labels = <<>>
    /\ nb_images = 0
    /\ nb_attempts = 0
    /\ image_counter = 0
    /\ empty_image_counter = 0
    /\ result_dicts = <<>>
    /\ x = 0
    /\ y = 0
    /\ PopulateIdle
    /\ NamingIdle
    /\ MaskIdle

\* extract_tile_items: area = get_tile_footprint(...)
GetTileFootprint ==
    /\ pc = "footprint"
    /\ \E err \in [1 .. 4 -> RoundOff] :
          area' = get_tile_footprint(raster_features, tile_x, tile_y,
                                     tile_w, tile_h, err)
    /\ pc' = "overlay"
    /\ UNCHANGED <<image_size, samplerVars, populateVars, coordVars, namingVars,
                   maskVars, raster_features, tile_x, tile_y, tile_w, tile_h, polygon, points>>

\* extract_tile_items: one of the rows of tile_items after the overlay
Overlay ==
    /\ pc = "overlay"
    /\ polygon' \in clipped_polygons(area)
    /\ pc' = "points"
    /\ UNCHANGED <<image_size, samplerVars, populateVars, coordVars, namingVars,
                   maskVars, raster_features, tile_x, tile_y, tile_w, tile_h, area, points>>

\* load_mask: points = extract_points_from_polygon(row["geometry"], ...)
ExtractPoints ==
    /\ pc = "points"
    /\ points' = extract_points_from_polygon(polygon, raster_features, tile_x, tile_y)
    /\ pc' = "extracted"
    /\ UNCHANGED <<image_size, samplerVars, populateVars, coordVars, namingVars,
                   maskVars, raster_features, tile_x, tile_y, tile_w, tile_h, area, polygon>>

GeometryNext == GetTileFootprint \/ Overlay \/ ExtractPoints

GeometrySpec == GeometryInit /\ [][GeometryNext]_vars

(***************************************************************************)
(* Claims about the tile geometry.                                         *)
(***************************************************************************)
\* k is the fraction q truncated towards zero
IsTruncationOf(k, q) ==
    /\ Abs(k) * q.den <= Abs(q.num)
    /\ Abs(q.num) < (Abs(k) + 1) * q.den
    /\ k * q.num >= 0

\* points[i] is (pixel_row - min_y, pixel_col - min_x) of vertex i
TileLocal(i) ==
    /\ IsTruncationOf(points[i][1] + tile_y,
                      QuotientOn(polygon[i][2], raster_features.north,
                                 raster_features.south, raster_features.height))
    /\ IsTruncationOf(points[i][2] + tile_x,
                      QuotientOn(polygon[i][1], raster_features.west,
                                 raster_features.east, raster_features.width))

SquareTile == tile_w = image_size /\ tile_h = image_size

\* C13 as stated: every vertex of a polygon clipped to the footprint of the
\* tile (min_x, min_y, image_size), the east and south edges included, comes
\* out as (pixel_row - min_y, pixel_col - min_x) with both components in
\* [0, image_size).
C13_PointsInsideTile ==
    (pc = "extracted" /\ SquareTile) =>
        /\ Len(points) = Len(polygon)
        /\ \A i \in 1 .. Len(points) :
              /\ TileLocal(i)
              /\ points[i][1] \in 0 .. (image_size - 1)
              /\ points[i][2] \in 0 .. (image_size - 1)

\* C13 amended: the pair is (pixel_row - min_y, pixel_col - min_x) and both
\* components lie in [-1, image_size]; image_size is the value of a vertex
\* on the east or south edge, -1 the value of a vertex on the west or north
\* edge of a tile away from the raster's origin whose double falls just
\* short of the pixel boundary.
C13_PointsWithinOnePixel ==
    (pc = "extracted" /\ SquareTile) =>
        /\ Len(points) = Len(polygon)
        /\ \A i \in 1 .. Len(points) :
              /\ TileLocal(i)
              /\ points[i][1] \in -1 .. image_size
              /\ points[i][2] \in -1 .. image_size
              /\ points[i][1] = -1 => tile_y > 0
              /\ points[i][2] = -1 => tile_x > 0

\* a polygon with a vertex on the south-east corner of a tile away from the
\* raster's origin, sent to (image_size, image_size)
C13_Witness ==
    /\ pc = "extracted"
    /\ SquareTile
    /\ tile_x > 0
    /\ tile_y > 0
    /\ \E i \in 1 .. Len(points) : points[i] = <<image_size, image_size>>

(***************************************************************************)
(* load_mask: the rasterization of the clipped labels of one tile.         *)
(***************************************************************************)
\* the pixels of a mask of shape (image_size, image_size)
Pixels == (0 .. (image_size - 1)) \X (0 .. (image_size - 1))

\* np.zeros(shape=(image_size, image_size), dtype=np.uint8)
zeros == [px \in Pixels |-> 0]

\* mutant of fillPoly: pixels already painted keep their value
fillPoly_background_only(m, cover, color) ==
    [px \in DOMAIN m |-> IF px \in cover /\ m[px] = 0 THEN color ELSE m[px]]

\* cv2.fillPoly(mask, [points], label_id), the polygon of vertices points
\* being kept as its cover, the pixels of the mask it fills
fillPoly(m, cover, color) ==
    [px \in DOMAIN m |-> IF px \in cover THEN color ELSE m[px]]

\* the condition strings of the label files, in several letter cases
Conditions == {"Complete", "incomplete", "FOUNDATION", "complete"}

\* the covers of the clipped polygons: a pixel, a row, a column, the tile
Covers ==
    {{px} : px \in Pixels}
        \cup {{px \in Pixels : px[1] = r} : r \in 0 .. (image_size - 1)}
        \cup {{px \in Pixels : px[2] = c} : c \in 0 .. (image_size - 1)}
        \cup {Pixels}

Rows == {[condition |-> c, cover |-> k] : c \in Conditions, k \in Covers}

MaskInit ==
    /\ image_size = 2
    /\ \E n \in 0 .. MaxBuildings : buildings \in [1 .. n -> Rows]
    /\ mask = <<>>
    /\ idx = 0
    /\ pc = "load_mask"
    /\ image_filename = ""
    /\ output_dir = "out"
    /\ x = 0
    /\ y = 0
    /\ SamplerIdle
    /\ PopulateIdle
    /\ NamingIdle
    /\ GeometryIdle

\* mask = np.zeros(...), and the early return on an empty frame
LoadMaskBegin ==
    /\ pc = "load_mask"
    /\ mask' = zeros
    /\ pc' = IF Len(buildings) = 0 THEN "masked" ELSE "rows"
    /\ UNCHANGED <<image_size, samplerVars, populateVars, coordVars, namingVars,
                   geometryVars, buildings, idx>>

\* one turn of the loop on buildings.iterrows(), and the return after the
\* last row
FillRow ==
    /\ pc = "rows"
    /\ mask' = fillPoly(mask, buildings[idx + 1].cover,
                        label_id(buildings[idx + 1].condition))
    /\ idx' = idx + 1
    /\ pc' = IF idx + 1 = Len(buildings) THEN "masked" ELSE "rows"
    /\ UNCHANGED <<image_size, samplerVars, populateVars, coordVars, namingVars,
                   geometryVars, buildings>>

MaskNext == LoadMaskBegin \/ FillRow

MaskSpec == MaskInit /\ [][MaskNext]_vars

(***************************************************************************)
(* Claims about load_mask.                                                 *)
(***************************************************************************)
\* the id the registry gives a condition, whatever its letter case
RegistryId(condition) ==
    CASE condition \in {"Complete", "complete"} -> 1
      [] condition = "incomplete" -> 2
      [] condition = "FOUNDATION" -> 3

\* the rows whose polygon covers the pixel px
Covering(px) == {k \in 1 .. Len(buildings) : px \in buildings[k].cover}

Last(S) == CHOOSE k \in S : \A j \in S : j <= k

\* C14: after load_mask every pixel holds 0 if no polygon covers it and else
\* the registry id of the last polygon, in iteration order, that covers it;
\* every value is a label id in {0, 1, 2, 3}, and an empty set of clipped
\* labels gives an all-background mask.
C14_LastPolygonWins ==
    pc = "masked" =>
        /\ DOMAIN mask = Pixels
        /\ \A px \in Pixels :
              /\ mask[px] = IF Covering(px) = {} THEN 0
                            ELSE RegistryId(buildings[Last(Covering(px))].condition)
              /\ mask[px] \in 0 .. 3
        /\ Len(buildings) = 0 => \A px \in Pixels : mask[px] = 0

\* two polygons of different classes overlap: the shared pixel holds the
\* second's id, a pixel of the first only holds the first's, one is bare
C14_Witness ==
    /\ pc = "masked"
    /\ Len(buildings) = 2
    /\ RegistryId(buildings[1].condition) # RegistryId(buildings[2].condition)
    /\ \E p1, p2, p3 \in Pixels :
          /\ Covering(p1) = {1, 2}
          /\ mask[p1] = RegistryId(buildings[2].condition)
          /\ Covering(p2) = {1}
          /\ mask[p2] = RegistryId(buildings[1].condition)
          /\ Covering(p3) = {}
          /\ mask[p3] = 0

(***************************************************************************)
(* Further claims about the sampler.                                       *)
(***************************************************************************)
\* the empty quota is used up: not empty_image_counter < 0.1 * nb_images
QuotaUsedUp == 10 * empty_image_counter >= nb_images

\* C15: every iteration raises nb_attempts by exactly 1, and an iteration
\* that draws an empty tile when the empty quota is used up leaves
\* image_counter, empty_image_counter and the list of records unchanged.
C15_DiscardHasNoEffect ==
    [][(pc = "loop" /\ pc' = "loop") =>
         /\ nb_attempts' = nb_attempts + 1
         /\ (Len(extract_tile_items(labels, x', y')) = 0 /\ QuotaUsedUp) =>
               UNCHANGED <<image_counter, empty_image_counter, result_dicts>>]_vars

\* more iterations were run than tiles were kept or quadrupled, the last one
\* on an empty tile with the quota used up
C15_Witness ==
    /\ pc = "loop"
    /\ nb_images >= 1
    /\ empty_image_counter >= 1
    /\ image_counter > empty_image_counter
    /\ 4 * (nb_attempts - empty_image_counter) > image_counter - empty_image_counter
    /\ Len(extract_tile_items(labels, x, y)) = 0
    /\ QuotaUsedUp

(***************************************************************************)
(* Claims about get_tile_footprint.                                        *)
(***************************************************************************)
\* the double g is min_coord + p * (max_coord - min_coord) / size, the
\* geographic image of pixel p, up to its rounding
IsImageOf(g, p, min_coord, max_coord, size) ==
    64 * Abs(g.num * size - (min_coord * size + p * (max_coord - min_coord)) * g.den)
        <= g.den * size

\* the pixel corners of the window, as (column, row), in the order of the
\* footprint's corners
WindowCorners ==
    << <<tile_x, tile_y>>,
       <<tile_x + tile_w, tile_y>>,
       <<tile_x + tile_w, tile_y + tile_h>>,
       <<tile_x, tile_y + tile_h>> >>

\* C16: for a tile window inside the raster, the corners of the footprint are
\* the geographic images of the window's pixel corners, row 0 at north and
\* row height at south, and get_pixel brings them back to min_x,
\* min_x + tile_width, min_y and min_y + tile_height within 1.
C16_FootprintCorners ==
    /\ pc \in {"overlay", "points", "extracted"} =>
          /\ Len(area) = 4
          /\ \A i \in 1 .. 4 :
                /\ IsImageOf(area[i][1], WindowCorners[i][1], raster_features.west,
                             raster_features.east, raster_features.width)
                /\ IsImageOf(area[i][2], WindowCorners[i][2], raster_features.north,
                             raster_features.south, raster_features.height)
    /\ (pc = "extracted" /\ polygon = area) =>
          \A i \in 1 .. 4 :
             /\ Abs(points[i][2] + tile_x - WindowCorners[i][1]) <= 1
             /\ Abs(points[i][1] + tile_y - WindowCorners[i][2]) <= 1

\* the footprint of a window that is not square and away from the raster's
\* origin went through get_pixel: its north edge came back one row low, its
\* south-east corner came back exact
C16_Witness ==
    /\ pc = "extracted"
    /\ polygon = area
    /\ tile_w # tile_h
    /\ tile_x > 0
    /\ tile_y > 0
    /\ points[1][1] = -1
    /\ points[3] = <<tile_h, tile_w>>

(***************************************************************************)
(* Invariants of the sampler run.                                          *)
(***************************************************************************)
\* C17: in every state of a run with target n the result list has
\* image_counter records, image_counter - empty_image_counter is a multiple
\* of 4 and image_counter <= n + 3, so at most n + 3 records are returned.
C17_CountsInvariant ==
    /\ Len(result_dicts) = image_counter
    /\ (image_counter - empty_image_counter) % 4 = 0
    /\ image_counter <= nb_images + 3
    /\ pc = "done" => Len(result_dicts) <= nb_images + 3

\* a run has returned n + 3 records, empty tiles among them
C17_Witness ==
    /\ pc = "done"
    /\ nb_images >= 2
    /\ empty_image_counter >= 1
    /\ Len(result_dicts) = nb_images + 3

\* C18: no two records returned by one sampler run have the same
\* image_filename, whatever the origins drawn.
C18_UniqueFilenames ==
    pc = "done" =>
        \A i, j \in 1 .. Len(result_dicts) :
            i # j => result_dicts[i].image_filename # result_dicts[j].image_filename

(***************************************************************************)
(* Claim about a populate call that fails.                                 *)
(***************************************************************************)
\* C19: if the processing of an image raises during populate, the exception
\* leaves populate and image_info is exactly what it was before the call, a
\* flat sequence of tile records with no nested per-image list, in
\* sequential and in parallel mode.
C19_FailureLeavesManifest ==
    pc = "raised" =>
        /\ image_info = manifest_before
        /\ \A i \in 1 .. Len(image_info) : "sublist" \notin DOMAIN image_info[i]

====
